---- MODULE Spec2Model ----
(***************************************************************************)
(* A model of the four data-collection scripts of capmf_scrape:            *)
(*   DRR_subindicators.py  the browser script (Sendai monitor)             *)
(*   LVC_pdf_scraping.py   the land-value-capture PDF script               *)
(*   ECT_scraping.py       the Energy Charter Treaty HTTP script           *)
(*   MARPOL_Annex6_pdf.py  the MARPOL treaty-status PDF script             *)
(* Each script is a sequential batch job; the scripts share no state.      *)
(***************************************************************************)
EXTENDS Integers, Sequences, FiniteSets, TLC

VARIABLES
    pc,             \* DRR: position of the script (a label naming source lines)
    err,            \* DRR: the uncaught exception that ended the script, if any
    globals,        \* DRR: the module-level names bound so far, with their values
    driver,         \* DRR: the browser session of the global name driver
    sessions,       \* DRR: number of browser sessions opened so far
    page,           \* DRR: what the browser displays
    pass,           \* DRR: the arguments and locals of the running run_scraping call
    trace,          \* DRR: the UI actions performed for the current country, in order
    fetches,        \* DRR: per country code, the number of driver.get calls so far
    mg,             \* the per-country merge loop of run_scraping, taken alone
    xd,             \* ECT: one application of extract_date
    yc,             \* one application of the year coercions to a column
    script,         \* which of the PDF/HTTP scripts runs
    lvc,            \* LVC: the state of extract_LVC_Data
    mar,            \* MARPOL: the state of the script
    ect,            \* ECT: the state of main
    wb              \* the workbook the running PDF/HTTP script has written

drrVars == <<pc, err, globals, driver, sessions, page, pass, trace, fetches>>
batchVars == <<script, lvc, mar, ect, wb>>
nonDRR == <<mg, xd, yc, batchVars>>
vars == <<drrVars, mg, xd, yc, batchVars>>

\* the value of the variables of a script that is not running
Idle == <<>>

-----------------------------------------------------------------------------
(* Bounds of the model *)

\* country codes 1..MaxCode stand for range(1, 194)
MaxCode == 2
\* subindicators e1a1..e1a<NumSub> stand for the ten of subindicators_xpaths
NumSub == 2
\* number of year rows the site shows per reporting cycle
YearsPerCycle == 2

-----------------------------------------------------------------------------
(* Generic helpers *)

Range(s) == {s[i] : i \in DOMAIN s}

RECURSIVE FlattenRange(_, _, _)
FlattenRange(ss, lo, hi) ==
    IF lo > hi THEN <<>>
    ELSE IF lo = hi THEN ss[lo]
    ELSE LET mid == (lo + hi) \div 2
         IN  FlattenRange(ss, lo, mid) \o FlattenRange(ss, mid + 1, hi)

\* the concatenation of a sequence of sequences
Flatten(ss) == FlattenRange(ss, 1, Len(ss))

\* pandas' missing value in a cell
NaN == <<>>

-----------------------------------------------------------------------------
(* DRR_subindicators.py: data frames *)

\* the text of a year cell of the site's table
YearText(n) ==
    CASE n = 2005 -> "2005" [] n = 2006 -> "2006" [] n = 2007 -> "2007"
      [] n = 2008 -> "2008" [] n = 2009 -> "2009" [] n = 2010 -> "2010"
      [] n = 2011 -> "2011" [] n = 2012 -> "2012" [] n = 2013 -> "2013"
      [] n = 2014 -> "2014" [] n = 2015 -> "2015" [] n = 2016 -> "2016"
      [] n = 2017 -> "2017" [] n = 2018 -> "2018" [] n = 2019 -> "2019"
      [] n = 2020 -> "2020" [] n = 2021 -> "2021" [] n = 2022 -> "2022"
      [] n = 2023 -> "2023" [] n = 2024 -> "2024"

\* the position of a year text in string order
YearRank(t) == CHOOSE n \in 2005..2024 : YearText(n) = t

\* subindicators_xpaths: the column name of subindicator i
SubName(i) ==
    CASE i = 1 -> "e1a1" [] i = 2 -> "e1a2" [] i = 3 -> "e1a3" [] i = 4 -> "e1a4"
      [] i = 5 -> "e1a5" [] i = 6 -> "e1a6" [] i = 7 -> "e1a7" [] i = 8 -> "e1a8"
      [] i = 9 -> "e1a9" [] i = 10 -> "e1a10"

\* the merge key of run_scraping
KeyCols == <<"Country", "Year", "Country_Code">>

\* pd.DataFrame(): no columns, no rows
EmptyDF == [cols |-> <<>>, rows |-> <<>>]

\* df.empty
IsEmpty(df) == df.rows = <<>> \/ df.cols = <<>>

KeyOf(r) == <<r.Country, r.Year, r.Country_Code>>

Keys(df) == {KeyOf(df.rows[i]) : i \in DOMAIN df.rows}

\* df['Country_Code'].unique(), as a set
Codes(df) == {df.rows[i].Country_Code : i \in DOMAIN df.rows}

\* lexicographic order of merge keys
KeyLess(a, b) ==
    \/ a[1] < b[1]
    \/ a[1] = b[1] /\ YearRank(a[2]) < YearRank(b[2])
    \/ a[1] = b[1] /\ a[2] = b[2] /\ a[3] < b[3]

RECURSIVE SortKeys(_)
SortKeys(S) == IF S = {} THEN <<>>
               ELSE LET k == CHOOSE m \in S : \A o \in S \ {m} : KeyLess(m, o)
                    IN  <<k>> \o SortKeys(S \ {k})

NonKeyCols(df) == SelectSeq(df.cols, LAMBDA c : c \notin Range(KeyCols))

\* the rows an outer join produces for one key: every pairing of the left and the
\* right rows with that key, a side without the key giving NaN in its columns
JoinKey(left, right, k) ==
    LET nkl == Range(NonKeyCols(left))
        nkr == Range(NonKeyCols(right))
        keyrow == [Country |-> k[1], Year |-> k[2], Country_Code |-> k[3]]
        L  == SelectSeq(left.rows, LAMBDA r : KeyOf(r) = k)
        R  == SelectSeq(right.rows, LAMBDA r : KeyOf(r) = k)
        LL == IF L = <<>> THEN << keyrow @@ [c \in nkl |-> NaN] >> ELSE L
        RR == IF R = <<>> THEN << [c \in nkr |-> NaN] >>
              ELSE [i \in DOMAIN R |-> [c \in nkr |-> R[i][c]]]
    IN  [n \in 1..(Len(LL) * Len(RR)) |->
            LL[((n - 1) \div Len(RR)) + 1] @@ RR[((n - 1) % Len(RR)) + 1]]

\* a plausible slip: how='inner' instead of how='outer'
MergeInner(left, right) ==
    LET ks == SortKeys(Keys(left) \cap Keys(right))
    IN  [cols |-> left.cols \o NonKeyCols(right),
         rows |-> Flatten([i \in DOMAIN ks |-> JoinKey(left, right, ks[i])])]

\* pd.merge(left, right, on=['Country', 'Year', 'Country_Code'], how='outer')
Merge(left, right) ==
    LET ks == SortKeys(Keys(left) \cup Keys(right))
    IN  [cols |-> left.cols \o NonKeyCols(right),
         rows |-> Flatten([i \in DOMAIN ks |-> JoinKey(left, right, ks[i])])]

\* the columns of pd.concat(dfs): those of the first frame, then the new ones of
\* each later frame, in order
ConcatCols(dfs) ==
    LET add(acc, cs) == acc \o SelectSeq(cs, LAMBDA c : c \notin Range(acc))
        F[i \in 0..Len(dfs)] == IF i = 0 THEN <<>> ELSE add(F[i - 1], dfs[i].cols)
    IN  F[Len(dfs)]

\* pd.concat(dfs, ignore_index=True): the rows of the frames in order, a column a
\* frame lacks filled with the missing value na
ConcatFill(dfs, na) ==
    LET cs == ConcatCols(dfs)
        rs == Flatten([i \in DOMAIN dfs |-> dfs[i].rows])
    IN  [cols |-> cs,
         rows |-> [i \in DOMAIN rs |->
                     rs[i] @@ [c \in Range(cs) \ DOMAIN rs[i] |-> na]]]

Concat(dfs) == ConcatFill(dfs, NaN)

-----------------------------------------------------------------------------
(* DRR_subindicators.py: the site *)

Cycles == {2005, 2024}

\* the years of the rows of the table of a cycle (2005..2015, 2015..2024), cut to
\* YearsPerCycle rows around the shared year 2015
CycleYears(cycle) ==
    IF cycle = 2005 THEN [i \in 1..YearsPerCycle |-> YearText(2015 - YearsPerCycle + i)]
    ELSE [i \in 1..YearsPerCycle |-> YearText(2014 + i)]

\* the value cell the site shows for a country, cycle and subindicator
SiteValue(country, cycle, sub) == <<country, cycle, sub>>

\* the table element as extract_table_data reads it (lines 91-105) when the rows of
\* the years ys are present: one row per year row, the value column named after the
\* requested subindicator; no row gives pd.DataFrame([]), a frame without columns
ReadTable(p, subname, code, ys) ==
    LET shown == SelectSeq(CycleYears(p.cycle), LAMBDA y : y \in ys)
    IN  IF shown = <<>> THEN EmptyDF
        ELSE [cols |-> <<"Country", "Year", subname, "Country_Code">>,
              rows |-> [i \in DOMAIN shown |->
                          [Country |-> p.country, Year |-> shown[i], Country_Code |-> code]
                              @@ (subname :> SiteValue(p.country, p.cycle, p.sub))]]

\* the table of a fully rendered page
TableDF(p, subname, code) == ReadTable(p, subname, code, Range(CycleYears(p.cycle)))

NoPage == [country |-> 0, cycle |-> 2024, sub |-> 1, table |-> FALSE]

-----------------------------------------------------------------------------
(* DRR_subindicators.py: run_scraping and the script around it *)

\* range(1, 194)
ExpectedCodes == 1..MaxCode

NoError == [type |-> "none", line |-> 0]

NoPass == [base_year |-> 0, country_list |-> <<>>, ret |-> "", i |-> 0, step |-> "",
           k |-> 0, country_df |-> EmptyDF, all_country_container |-> <<>>]

\* the locals of run_scraping as a call starts (lines 113-118)
NewPass(base_year, country_list, ret) ==
    [base_year |-> base_year, country_list |-> country_list, ret |-> ret, i |-> 1,
     step |-> "get", k |-> 1, country_df |-> EmptyDF, all_country_container |-> <<>>]

\* lines 154-158: the first table replaces an empty country_df, later ones are merged
MergeStep(country_df, df) ==
    IF IsEmpty(country_df) THEN df ELSE Merge(country_df, df)

\* pd.merge raises KeyError when a frame lacks the key columns (a table without rows
\* gives pd.DataFrame([]), which has no columns)
MergeRaises(country_df, df) ==
    ~IsEmpty(country_df) /\ ~(Range(KeyCols) \subseteq Range(df.cols))

\* an uncaught exception ends the script; the browser session stays as it is
Crash(type, line) ==
    /\ pc' = "crashed"
    /\ err' = [type |-> type, line |-> line]

InRun(step) == pc = "run" /\ pass.step = step

DRRInit ==
    /\ pc = "l177"
    /\ err = NoError
    /\ globals = <<>>
    /\ driver = "none"
    /\ sessions = 0
    /\ page = NoPage
    /\ pass = NoPass
    /\ trace = <<>>
    /\ fetches = [c \in ExpectedCodes |-> 0]

\* lines 177-180: open the session of the first 2015-2024 pass and call run_scraping
OpenDriver2024 ==
    /\ pc = "l177"
    /\ driver' = "open"
    /\ sessions' = sessions + 1
    /\ pass' = NewPass(2024, [c \in 1..MaxCode |-> c], "df_2024")
    /\ pc' = "run"
    /\ UNCHANGED <<err, globals, page, trace>>
    /\ UNCHANGED <<fetches, nonDRR>>

\* lines 118-120: driver.get(url); a WebDriverException is not caught. The loaded
\* page shows the site's default cycle and first subindicator, the table hidden
DriverGet ==
    /\ InRun("get")
    /\ \/ /\ \E d \in Cycles :
                page' = [country |-> pass.country_list[pass.i], cycle |-> d,
                         sub |-> 1, table |-> FALSE]
          /\ pass' = [pass EXCEPT !.step = "click_table"]
          /\ trace' = <<"get">>
          /\ UNCHANGED <<pc, err>>
       \/ /\ Crash("WebDriverException", 120)
          /\ UNCHANGED <<page, pass, trace>>
    /\ fetches' = [fetches EXCEPT ![pass.country_list[pass.i]] = @ + 1]
    /\ UNCHANGED <<globals, driver, sessions>>
    /\ UNCHANGED nonDRR

\* lines 67-76, called at line 121: a failure is printed and swallowed
ClickTableButton ==
    /\ InRun("click_table")
    /\ \E ok \in BOOLEAN : page' = IF ok THEN [page EXCEPT !.table = TRUE] ELSE page
    /\ pass' = [pass EXCEPT !.step = "select_year"]
    /\ trace' = Append(trace, "click_table")
    /\ UNCHANGED <<pc, err, globals, driver, sessions>>
    /\ UNCHANGED <<fetches, nonDRR>>

\* lines 37-65, called at lines 123-126, then lines 129-132
SelectYear ==
    /\ InRun("select_year")
    /\ \E ok \in BOOLEAN :
           page' = IF ok THEN [page EXCEPT !.cycle = pass.base_year] ELSE page
    /\ pass' = [pass EXCEPT !.step = "select_second", !.k = 1, !.country_df = EmptyDF]
    /\ trace' = Append(trace, "select_year")
    /\ UNCHANGED <<pc, err, globals, driver, sessions>>
    /\ UNCHANGED <<fetches, nonDRR>>

\* a plausible slip: the selection of the second subindicator (line 140) left out
SkipSecond ==
    /\ InRun("select_second")
    /\ pass' = [pass EXCEPT !.step = "select_sub"]
    /\ UNCHANGED <<pc, err, globals, driver, sessions, page, trace>>
    /\ UNCHANGED <<fetches, nonDRR>>

\* line 140: in the first iteration the second subindicator is selected first
SelectSecond ==
    /\ InRun("select_second")
    /\ \E ok \in BOOLEAN : page' = IF ok THEN [page EXCEPT !.sub = 2] ELSE page
    /\ pass' = [pass EXCEPT !.step = "select_sub"]
    /\ trace' = Append(trace, "select_sub")
    /\ UNCHANGED <<pc, err, globals, driver, sessions>>
    /\ UNCHANGED <<fetches, nonDRR>>

\* lines 20-35, called at line 143 or 149 with the xpath of subindicator k
SelectSubindicator ==
    /\ InRun("select_sub")
    /\ \E ok \in BOOLEAN : page' = IF ok THEN [page EXCEPT !.sub = pass.k] ELSE page
    /\ pass' = [pass EXCEPT !.step = "extract"]
    /\ trace' = Append(trace, "select_sub")
    /\ UNCHANGED <<pc, err, globals, driver, sessions>>
    /\ UNCHANGED <<fetches, nonDRR>>

\* lines 152-160: extract_table_data returns the displayed table, or None when the
\* table is not present or the wait times out; a table is merged into country_df
ExtractAndMerge ==
    /\ InRun("extract")
    /\ \E got \in (IF page.table THEN BOOLEAN ELSE {FALSE}) :
         LET df == TableDF(page, SubName(pass.k), pass.country_list[pass.i])
             nxt == IF pass.k < NumSub
                    THEN [pass EXCEPT !.step = "select_sub", !.k = pass.k + 1]
                    ELSE [pass EXCEPT !.step = "end_country"]
         IN  IF got /\ MergeRaises(pass.country_df, df)
             THEN Crash("KeyError", 158) /\ UNCHANGED pass
             ELSE /\ pass' = IF got
                             THEN [nxt EXCEPT !.country_df = MergeStep(pass.country_df, df)]
                             ELSE nxt
                  /\ UNCHANGED <<pc, err>>
    /\ trace' = Append(trace, "read_table")
    /\ UNCHANGED <<globals, driver, sessions, page>>
    /\ UNCHANGED <<fetches, nonDRR>>

\* lines 162-164 and the loop header of line 118
EndCountry ==
    /\ InRun("end_country")
    /\ LET cont == IF ~IsEmpty(pass.country_df)
                   THEN Append(pass.all_country_container, pass.country_df)
                   ELSE pass.all_country_container
       IN  pass' = IF pass.i < Len(pass.country_list)
                   THEN [pass EXCEPT !.all_country_container = cont,
                                     !.i = pass.i + 1, !.step = "get"]
                   ELSE [pass EXCEPT !.all_country_container = cont, !.step = "concat"]
    /\ UNCHANGED <<pc, err, globals, driver, sessions, page, trace>>
    /\ UNCHANGED <<fetches, nonDRR>>

\* lines 167-172 and the assignment of the call's result (line 180): pd.concat of an
\* empty list raises ValueError
ConcatReturn ==
    /\ InRun("concat")
    /\ IF pass.all_country_container = <<>>
       THEN Crash("ValueError", 167) /\ UNCHANGED <<globals, pass>>
       ELSE /\ globals' = (pass.ret :> Concat(pass.all_country_container)) @@ globals
            /\ pass' = NoPass
            /\ pc' = "l181"
            /\ err' = err
    /\ UNCHANGED <<driver, sessions, page, trace>>
    /\ UNCHANGED <<fetches, nonDRR>>

\* line 181: driver.quit()
QuitDriver2024 ==
    /\ pc = "l181"
    /\ driver' = "quit"
    /\ pc' = "l184"
    /\ UNCHANGED <<err, globals, sessions, page, pass, trace>>
    /\ UNCHANGED <<fetches, nonDRR>>

\* lines 184-185: the 2015-2024 retry set is computed from final_df_2024, a name the
\* script never binds (run_scraping's result is bound to df_2024): NameError
MissingCodes2024 ==
    /\ pc = "l184"
    /\ IF "final_df_2024" \in DOMAIN globals
       THEN /\ globals' = ("missing_country_codes" :>
                              (ExpectedCodes \ Codes(globals["final_df_2024"]))) @@ globals
            /\ pc' = "l187"
            /\ err' = err
       ELSE Crash("NameError", 184) /\ UNCHANGED globals
    /\ UNCHANGED <<driver, sessions, page, pass, trace>>
    /\ UNCHANGED <<fetches, nonDRR>>

\* the statements after line 185 are never reached: every run of the script ends
\* with an uncaught exception at line 120, 167 or 184
DRRNext ==
    \/ OpenDriver2024
    \/ DriverGet
    \/ ClickTableButton
    \/ SelectYear
    \/ SelectSecond
    \/ SelectSubindicator
    \/ ExtractAndMerge
    \/ EndCountry
    \/ ConcatReturn
    \/ QuitDriver2024
    \/ MissingCodes2024

BatchIdle ==
    script = Idle /\ lvc = Idle /\ mar = Idle /\ ect = Idle /\ wb = Idle

DRRIdle ==
    /\ pc = "idle" /\ err = NoError /\ globals = <<>> /\ driver = "none"
    /\ sessions = 0 /\ page = NoPage /\ pass = NoPass /\ trace = <<>>
    /\ fetches = Idle

-----------------------------------------------------------------------------
(* The merge loop of run_scraping for one country (lines 129-160), taken alone:   *)
(* extract_table_data may return None or the table with any of its rows rendered. *)

MergeInit ==
    \E c \in ExpectedCodes :
        mg = [country_code |-> c, k |-> 1, country_df |-> EmptyDF,
              parts |-> <<>>, err |-> "none"]

\* lines 152-160 for subindicator k; parts records the tables that were returned
MergePartial ==
    /\ mg # Idle
    /\ mg.err = "none"
    /\ mg.k <= NumSub
    /\ \E cyc \in Cycles : \E ys \in SUBSET Range(CycleYears(cyc)), got \in BOOLEAN :
         LET p  == [country |-> mg.country_code, cycle |-> cyc, sub |-> mg.k,
                    table |-> TRUE]
             df == ReadTable(p, SubName(mg.k), mg.country_code, ys)
         IN  IF ~got
             THEN mg' = [mg EXCEPT !.k = mg.k + 1]
             ELSE IF MergeRaises(mg.country_df, df)
                  THEN mg' = [mg EXCEPT !.err = "KeyError"]
                  ELSE mg' = [mg EXCEPT !.k = mg.k + 1,
                                        !.country_df = MergeStep(mg.country_df, df),
                                        !.parts = Append(mg.parts,
                                                     [sub |-> SubName(mg.k), df |-> df])]
    /\ UNCHANGED <<drrVars, xd, yc, batchVars>>

MergeNext == MergePartial

InitMerge == MergeInit /\ DRRIdle /\ xd = Idle /\ yc = Idle /\ BatchIdle

SpecMerge == InitMerge /\ [][MergeNext]_vars

Init == DRRInit /\ mg = Idle /\ xd = Idle /\ yc = Idle /\ BatchIdle

Next == DRRNext

Spec == Init /\ [][Next]_vars

-----------------------------------------------------------------------------
(* Workbooks *)

\* a plausible slip: index=True, which puts the index column before the columns
DataSheetWithIndex(name, df) ==
    [name |-> name, kind |-> "data", header |-> <<"">> \o df.cols, rows |-> df.rows,
     text |-> <<>>]

\* one sheet as a DataFrame is written by to_excel(index=False) or by appending
\* dataframe_to_rows(df, index=False, header=True): the header row, then the rows
DataSheet(name, df) ==
    [name |-> name, kind |-> "data", header |-> df.cols, rows |-> df.rows, text |-> <<>>]

\* a sheet holding lines of free text
TextSheet(name, lines) ==
    [name |-> name, kind |-> "text", header |-> <<>>, rows |-> <<>>, text |-> lines]

-----------------------------------------------------------------------------
(* LVC_pdf_scraping.py *)

\* number of entries of country_pages that are read (58 in the script)
LVCCountries == 2
\* rows of all tables of the PDF together
MaxRowsLVC == 5

LVCColumns == <<"Instrument (OECD-Lincoln taxonomy)", "Local name",
                "National legal provision", "Implementation", "Use">>

InstrumentCol == LVCColumns[1]

ProvisionCol == LVCColumns[3]

\* the first keys of country_pages
LVCCountryName(i) ==
    CASE i = 1 -> "Argentina" [] i = 2 -> "Australia" [] i = 3 -> "Austria"
      [] i = 4 -> "Bangladesh"

\* pd.NA / NaN in a text column
NA == "<NA>"

\* the rows the tables of the PDF are drawn from: the instrument label and the
\* national legal provision of a row
RowKinds ==
    { [label |-> "Tax",   nlp |-> "Law 1999"],
      [label |-> "",      nlp |-> "Laws 1985 and 2001"],
      [label |-> "Fee\n", nlp |-> "Act 1750 of 2030"],
      [label |-> "  ",    nlp |-> "n/a"] }

\* the numbers of columns camelot finds in a table: fewer than, as many as, and more
\* than len(columns)
TableWidths == {2, 5, 6}

\* lines 164-165 on the cell texts above: '\n' removed, runs of spaces made one space
CleanText(t) ==
    CASE t = "Fee\n" -> "Fee"
      [] t = "  " -> " "
      [] OTHER -> t

\* re.findall(r'\b\d{4}\b', text) on the provision texts above, as integers
FourDigitMatches(t) ==
    CASE t = "Law 1999" -> <<1999>>
      [] t = "Laws 1985 and 2001" -> <<1985, 2001>>
      [] t = "Act 1750 of 2030" -> <<1750, 2030>>
      [] OTHER -> <<>>

\* None, the result of extract_valid_years without a valid year
NoYears == <<>>

\* extract_valid_years (lines 85-108)
extract_valid_years(text) ==
    SelectSeq(FourDigitMatches(text), LAMBDA y : 1800 <= y /\ y <= 2025)

\* lines 144-153: table.df with its columns named and the Country column added
NamedTable(w, kinds, country) ==
    LET cs == SubSeq(LVCColumns, 1, w)
    IN  [cols |-> cs \o <<"Country">>,
         rows |-> [i \in DOMAIN kinds |->
                     [c \in Range(cs) |->
                         IF c = InstrumentCol THEN kinds[i].label
                         ELSE IF c = ProvisionCol THEN kinds[i].nlp
                         ELSE "x"]
                     @@ [Country |-> country]]]

Column(df, c) == [i \in DOMAIN df.rows |-> df.rows[i][c]]

SetColumn(df, c, vals) ==
    [cols |-> IF c \in Range(df.cols) THEN df.cols ELSE Append(df.cols, c),
     rows |-> [i \in DOMAIN df.rows |-> (c :> vals[i]) @@ df.rows[i]]]

\* lines 164-165: the regex replacements, applied to every text cell
CleanFrame(df) ==
    [cols |-> df.cols,
     rows |-> [i \in DOMAIN df.rows |->
                 [c \in DOMAIN df.rows[i] |-> CleanText(df.rows[i][c])]]]

\* a plausible slip: method='bfill', which takes the next label below
BackFill(col) ==
    LET F[i \in 0..Len(col)] ==
            IF i = 0 THEN NA
            ELSE LET j == Len(col) + 1 - i
                 IN  IF col[j] # NA THEN col[j] ELSE F[i - 1]
    IN  [j \in DOMAIN col |-> F[Len(col) + 1 - j]]

\* fillna(method='ffill'): a missing cell takes the last value above that is present
ForwardFill(col) ==
    LET F[i \in 0..Len(col)] ==
            IF i = 0 THEN NA
            ELSE IF col[i] # NA THEN col[i] ELSE F[i - 1]
    IN  [i \in DOMAIN col |-> F[i]]

\* replace('', pd.NA)
BlankToNA(col) == [i \in DOMAIN col |-> IF col[i] = "" THEN NA ELSE col[i]]

LVCRows(dfs) == Len(Flatten([i \in DOMAIN dfs |-> dfs[i].rows]))

LVCInit ==
    /\ script = "LVC"
    /\ lvc = [step |-> "tables", ci |-> 1, dfs |-> <<>>, combined |-> EmptyDF,
              cleaned |-> <<>>, err |-> "none"]
    /\ wb = <<>>
    /\ mar = Idle
    /\ ect = Idle

LVCAt(step) == script = "LVC" /\ lvc.step = step

\* the numbers of tables camelot finds on the page of a country
TablesPerPage == {0, 1}

\* lines 134-157 for the page of country ci: its table, if any, is named and kept;
\* df.columns = columns raises ValueError when the table has more columns than names
LVCPage ==
    /\ LVCAt("tables")
    /\ \E t \in TablesPerPage :
         LET nxt == IF lvc.ci < LVCCountries
                    THEN [lvc EXCEPT !.ci = lvc.ci + 1]
                    ELSE [lvc EXCEPT !.step = "concat"]
         IN  IF t = 0 THEN lvc' = nxt
             ELSE \E w \in TableWidths, n \in 1..MaxRowsLVC :
                    /\ LVCRows(lvc.dfs) + n <= MaxRowsLVC
                    /\ \E kinds \in [1..n -> RowKinds] :
                         lvc' = IF w > Len(LVCColumns)
                                THEN [lvc EXCEPT !.step = "crashed", !.err = "ValueError"]
                                ELSE [nxt EXCEPT !.dfs = Append(lvc.dfs,
                                         NamedTable(w, kinds, LVCCountryName(lvc.ci)))]
    /\ UNCHANGED <<drrVars, mg, xd, yc, script, mar, ect, wb>>

\* lines 160-167: pd.concat (ValueError when no table was found), the cleaning, and
\* the forward-fill of the blank instrument labels; cleaned keeps the labels as they
\* are after line 165
LVCCleanFill ==
    /\ LVCAt("concat")
    /\ lvc' = IF lvc.dfs = <<>>
              THEN [lvc EXCEPT !.step = "crashed", !.err = "ValueError"]
              ELSE LET c == CleanFrame(ConcatFill(lvc.dfs, NA))
                       labels == Column(c, InstrumentCol)
                   IN  [lvc EXCEPT !.step = "year", !.cleaned = labels,
                                   !.combined = SetColumn(c, InstrumentCol,
                                                    ForwardFill(BlankToNA(labels)))]
    /\ UNCHANGED <<drrVars, mg, xd, yc, script, mar, ect, wb>>

\* lines 170-182: the Year column (KeyError when no table had the provision column,
\* TypeError from re.findall when a narrower table left a missing cell in it), then
\* the workbook, which has the sheet 'Combined' only
LVCYearExport ==
    /\ LVCAt("year")
    /\ IF ProvisionCol \notin Range(lvc.combined.cols)
       THEN lvc' = [lvc EXCEPT !.step = "crashed", !.err = "KeyError"] /\ wb' = wb
       ELSE IF NA \in Range(Column(lvc.combined, ProvisionCol))
       THEN lvc' = [lvc EXCEPT !.step = "crashed", !.err = "TypeError"] /\ wb' = wb
       ELSE LET c == SetColumn(lvc.combined, "Year",
                        [i \in DOMAIN lvc.combined.rows |->
                            extract_valid_years(lvc.combined.rows[i][ProvisionCol])])
            IN  /\ lvc' = [lvc EXCEPT !.step = "done", !.combined = c]
                /\ wb' = <<DataSheet("Combined", c)>>
    /\ UNCHANGED <<drrVars, mg, xd, yc, script, mar, ect>>

LVCNext ==
    \/ LVCPage
    \/ LVCCleanFill
    \/ LVCYearExport

InitLVC == LVCInit /\ DRRIdle /\ mg = Idle /\ xd = Idle /\ yc = Idle

SpecLVC == InitLVC /\ [][LVCNext]_vars

-----------------------------------------------------------------------------
(* ECT_scraping.py: extract_date. A text is the sequence of its words. *)

\* longest text, in words
MaxTextLen == 5

\* the words the texts are made of
Words == {"ratified", "on", "05", "December", "1997", "32", "x"}

\* two of the prefixes main passes (lines 237-240), as word sequences
Prefixes == {<<"signed", "on">>, <<"ratified", "on">>}

\* a text cell: None / NaN, or a string
NullText == [null |-> TRUE, words |-> <<>>]

Text(ws) == [null |-> FALSE, words |-> ws]

\* %d: a day of the month, with or without a leading zero
DayOf(w) == CASE w = "05" -> 5 [] w = "32" -> 32 [] OTHER -> 0

\* %B: a full month name
MonthOf(w) == CASE w = "December" -> 12 [] OTHER -> 0

\* %Y: a year of four digits
YearOf(w) == CASE w = "1997" -> 1997 [] OTHER -> 0

\* the result of an expression: a value, or the exception it raises
Value(v) == [raised |-> "none", kind |-> "year", year |-> v]

NoneValue == [raised |-> "none", kind |-> "None", year |-> 0]

NaNValue == [raised |-> "none", kind |-> "NaN", year |-> 0]

Raised(exc) == [raised |-> exc, kind |-> "None", year |-> 0]

\* pd.to_datetime(s, format='%d %B %Y').year for the stripped words s: the empty
\* string gives NaT, whose year is NaN; a string that is not a day, a month name and
\* a four-digit year raises ValueError
ToDatetimeYear(s) ==
    IF s = <<>> THEN NaNValue
    ELSE IF /\ Len(s) = 3
            /\ DayOf(s[1]) \in 1..31
            /\ MonthOf(s[2]) \in 1..12
            /\ YearOf(s[3]) # 0
         THEN Value(YearOf(s[3]))
         ELSE Raised("ValueError")

\* the positions at which prefix occurs in the words ws
Occurrences(ws, prefix) ==
    {i \in 1..(Len(ws) - Len(prefix) + 1) :
        SubSeq(ws, i, i + Len(prefix) - 1) = prefix}

\* text.split(prefix)[1].strip(): the words between the first occurrence of the
\* prefix and the next one that does not overlap it
SplitSecond(ws, prefix) ==
    LET occ   == Occurrences(ws, prefix)
        first == CHOOSE i \in occ : \A j \in occ : i <= j
        from  == first + Len(prefix)
        later == {j \in occ : j >= from}
        to    == IF later = {} THEN Len(ws)
                 ELSE (CHOOSE j \in later : \A k \in later : j <= k) - 1
    IN  SubSeq(ws, from, to)

\* a plausible slip: except IndexError only, so that ValueError propagates
extract_date_uncaught(text, prefix) ==
    IF text.null THEN NoneValue
    ELSE IF Occurrences(text.words, prefix) # {}
         THEN ToDatetimeYear(SplitSecond(text.words, prefix))
         ELSE NoneValue

\* extract_date (lines 124-145)
extract_date(text, prefix) ==
    IF text.null THEN NoneValue
    ELSE IF Occurrences(text.words, prefix) # {}
         THEN LET r == ToDatetimeYear(SplitSecond(text.words, prefix))
              IN  IF r.raised \in {"IndexError", "ValueError"} THEN NoneValue ELSE r
         ELSE NoneValue

TextsUpTo(n) == UNION {[1..m -> Words] : m \in 0..n}

ExtractDateInit ==
    \E ws \in TextsUpTo(MaxTextLen), null \in BOOLEAN, prefix \in Prefixes :
        /\ null => ws = <<>>
        /\ xd = [text |-> IF null THEN NullText ELSE Text(ws), prefix |-> prefix,
                 called |-> FALSE, result |-> NoneValue]

\* one call extract_date(text, prefix), as in the lambdas of lines 237-240
CallExtractDate ==
    /\ xd # Idle
    /\ ~xd.called
    /\ xd' = [xd EXCEPT !.called = TRUE, !.result = extract_date(xd.text, xd.prefix)]
    /\ UNCHANGED <<drrVars, mg, yc, batchVars>>

ExtractDateNext == CallExtractDate

InitExtractDate == ExtractDateInit /\ DRRIdle /\ mg = Idle /\ yc = Idle /\ BatchIdle

SpecExtractDate == InitExtractDate /\ [][ExtractDateNext]_vars

-----------------------------------------------------------------------------
(* MARPOL_Annex6_pdf.py *)

\* rows of the status tables of the PDF
MaxEntities == 2

\* range(1990, 2024), line 68
PanelFirstYear == 1990
PanelStopYear == 2024
\* lines 89 and 90
EffectCutoff == 2005
SignCutoff == 1997

PanelYears == PanelFirstYear..(PanelStopYear - 1)

\* the year of NaT, and a year cell set to np.nan
NaNYear == -1

\* the country cell of row i of the PDF tables
PDFCountry(i) ==
    CASE i = 1 -> "Norway (1)" [] i = 2 -> "Liberia" [] i = 3 -> "Panama (2)"
      [] i = 4 -> "Tuvalu"

\* line 35: the text before ' ('
BeforeParenthesis(t) ==
    CASE t = "Norway (1)" -> "Norway" [] t = "Panama (2)" -> "Panama" [] OTHER -> t

\* the cells of the signature column of the PDF tables: a date before the cutoff of
\* line 90, a later date, and a cell that is no date
SignatureTexts == {"1 January 1995", "7 July 1999", "-"}

\* the cells of the entry-into-force column: a date before the cutoff of line 89 (those
\* of add_manual_data are after it), and a cell that is no date
EntryTexts == {"3 March 2000", "-"}

\* pd.to_datetime(text, errors='coerce').year on the date cells of the PDF and of
\* add_manual_data; a text that is no date gives NaT
CoercedYear(t) ==
    CASE t = "1 January 1995" -> 1995
      [] t = "7 July 1999" -> 1999
      [] t = "3 March 2000" -> 2000
      [] t = "23 May 2006" -> 2006
      [] t = "20 March 2008" -> 2008
      [] OTHER -> NaNYear

\* alphabetical order of the country names, for sort_values
CountryRank(c) ==
    CASE c = "Hong Kong" -> 1 [] c = "Liberia" -> 2 [] c = "Macau" -> 3
      [] c = "Norway" -> 4 [] c = "Panama" -> 5 [] c = "Tuvalu" -> 6

\* lines 48-53: new_rows of add_manual_data
ManualRows ==
    << [Country |-> "Macau", Signature |-> "23 May 2006", EntryintoForce |-> "23 May 2006"],
       [Country |-> "Hong Kong", Signature |-> "20 March 2008",
        EntryintoForce |-> "20 March 2008"] >>

\* generate_panel_data (lines 57-72): a copy of combined per year, in year order
generate_panel_data(combined) ==
    LET ys == [i \in 1..(PanelStopYear - PanelFirstYear) |-> PanelFirstYear + i - 1]
    IN  [cols |-> combined.cols \o <<"Year">>,
         rows |-> Flatten([i \in DOMAIN ys |->
                     [j \in DOMAIN combined.rows |->
                         combined.rows[j] @@ [Year |-> ys[i]]]])]

\* a plausible slip: < instead of <=
StrictlyBefore(date_year, year) ==
    IF date_year # NaNYear /\ date_year < year THEN 1 ELSE 0

\* lines 92-93: (column <= Year).astype(int); a comparison with NaN is False
NotAfter(date_year, year) ==
    IF date_year # NaNYear /\ date_year <= year THEN 1 ELSE 0

\* lines 89-90: the year cell is set to NaN in the rows before the cutoff
ClipBefore(date_year, year, cutoff) ==
    IF year < cutoff THEN NaNYear ELSE date_year

\* a plausible slip: line 90 left out, the signature year not clipped
marpol_sign_unclipped(r) == NotAfter(CoercedYear(r.Signature), r.Year)

\* line 92
marpol_sign(r) == NotAfter(ClipBefore(CoercedYear(r.Signature), r.Year, SignCutoff), r.Year)

\* line 93
marpol_effect(r) ==
    NotAfter(ClipBefore(CoercedYear(r.EntryintoForce), r.Year, EffectCutoff), r.Year)

\* the values of a set of integers in increasing order
RECURSIVE Ascending(_)
Ascending(S) ==
    IF S = {} THEN <<>>
    ELSE LET m == CHOOSE x \in S : \A y \in S : x <= y
         IN  <<m>> \o Ascending(S \ {m})

\* sort_values(by=['Country', 'Year']): the rows of each (Country, Year) pair, the
\* pairs in increasing order
SortPanel(rows) ==
    LET ranks == Ascending({CountryRank(rows[i].Country) : i \in DOMAIN rows})
        years == Ascending({rows[i].Year : i \in DOMAIN rows})
        ofRank(k) == SelectSeq(rows, LAMBDA r : CountryRank(r.Country) = ranks[k])
        ofYear(rs, y) == SelectSeq(rs, LAMBDA r : r.Year = y)
    IN  Flatten([k \in DOMAIN ranks |->
            LET rs == ofRank(k)
            IN  Flatten([j \in DOMAIN years |-> ofYear(rs, years[j])])])

\* clean_panel_data (lines 74-98)
clean_panel_data(panel_data) ==
    [cols |-> <<"Country", "Year", "marpol_sign", "marpol_effect">>,
     rows |-> SortPanel([i \in DOMAIN panel_data.rows |->
                 [Country |-> panel_data.rows[i].Country,
                  Year |-> panel_data.rows[i].Year,
                  marpol_sign |-> marpol_sign(panel_data.rows[i]),
                  marpol_effect |-> marpol_effect(panel_data.rows[i])]])]

MARInit ==
    /\ script = "MARPOL"
    /\ mar = [step |-> "extract", combined |-> EmptyDF, panel |-> EmptyDF, err |-> "none"]
    /\ wb = <<>>
    /\ lvc = Idle
    /\ ect = Idle

MARAt(step) == script = "MARPOL" /\ mar.step = step

\* lines 137-138: the tables of the two pages, concatenated; pd.concat raises
\* ValueError when camelot found no table
MARExtract ==
    /\ MARAt("extract")
    /\ \E n \in 0..MaxEntities : \E sig \in [1..n -> SignatureTexts], eif \in [1..n -> EntryTexts] :
         mar' = IF n = 0
                THEN [mar EXCEPT !.step = "crashed", !.err = "ValueError"]
                ELSE [mar EXCEPT !.step = "clean",
                          !.combined = [cols |-> <<"0", "1", "2">>,
                                        rows |-> [i \in 1..n |->
                                           ("0" :> PDFCountry(i)) @@ ("1" :> sig[i])
                                               @@ ("2" :> eif[i])]]]
    /\ UNCHANGED <<drrVars, mg, xd, yc, script, lvc, ect, wb>>

\* line 141: clean_combined_data (lines 24-36)
MARClean ==
    /\ MARAt("clean")
    /\ mar' = [mar EXCEPT !.step = "manual",
                   !.combined = [cols |-> <<"Country", "Signature", "EntryintoForce">>,
                                 rows |-> [i \in DOMAIN mar.combined.rows |->
                                    [Country |-> BeforeParenthesis(mar.combined.rows[i]["0"]),
                                     Signature |-> mar.combined.rows[i]["1"],
                                     EntryintoForce |-> mar.combined.rows[i]["2"]]]]]
    /\ UNCHANGED <<drrVars, mg, xd, yc, script, lvc, ect, wb>>

\* line 142: add_manual_data (lines 38-55)
MARAddManual ==
    /\ MARAt("manual")
    /\ mar' = [mar EXCEPT !.step = "save",
                   !.combined = [cols |-> mar.combined.cols,
                                 rows |-> mar.combined.rows \o ManualRows]]
    /\ UNCHANGED <<drrVars, mg, xd, yc, script, lvc, ect, wb>>

\* line 144: save_to_excel (lines 100-115) writes the sheets 'raw data' and
\* 'panel data'
MARSave ==
    /\ MARAt("save")
    /\ LET panel == clean_panel_data(generate_panel_data(mar.combined))
       IN  /\ mar' = [mar EXCEPT !.step = "done", !.panel = panel]
           /\ wb' = <<DataSheet("raw data", mar.combined), DataSheet("panel data", panel)>>
    /\ UNCHANGED <<drrVars, mg, xd, yc, script, lvc, ect>>

MARNext ==
    \/ MARExtract
    \/ MARClean
    \/ MARAddManual
    \/ MARSave

InitMARPOL == MARInit /\ DRRIdle /\ mg = Idle /\ xd = Idle /\ yc = Idle

SpecMARPOL == InitMARPOL /\ [][MARNext]_vars

-----------------------------------------------------------------------------
(* ECT_scraping.py: main *)

\* countries linked on the treaty page
MaxECTCountries == 2
\* list items of the treaty section of a country page
MaxItems == 5

\* the titles of the links of the treaty page, in page order
ECTCountryName(i) ==
    CASE i = 1 -> "Luxembourg" [] i = 2 -> "Austria" [] i = 3 -> "Spain"
      [] i = 4 -> "Japan"

\* a curated value that is not a date
NotAvailable == <<>>

\* withdrawal_data (lines 17-54), in the order of the dict; a date is <<y, m, d>>
withdrawal_data ==
    << [country |-> "Italy",
        dates |-> << <<"date_withdrawal_notification", <<2014, 12, 31>> >>,
                     <<"date_withdrawal_effect", <<2016, 1, 1>> >>,
                     <<"date_ratification", <<1997, 12, 5>> >> >>],
       [country |-> "France",
        dates |-> << <<"date_withdrawal_notification", <<2022, 12, 7>> >>,
                     <<"date_withdrawal_effect", <<2023, 12, 8>> >>,
                     <<"date_ratification", <<1999, 9, 1>> >> >>],
       [country |-> "Germany",
        dates |-> << <<"date_withdrawal_notification", <<2022, 12, 19>> >>,
                     <<"date_withdrawal_effect", <<2023, 12, 20>> >>,
                     <<"date_ratification", <<1997, 3, 14>> >> >>],
       [country |-> "Poland",
        dates |-> << <<"date_withdrawal_notification", <<2022, 12, 28>> >>,
                     <<"date_withdrawal_effect", <<2023, 12, 29>> >>,
                     <<"date_ratification", <<2000, 11, 24>> >> >>],
       [country |-> "Luxembourg",
        dates |-> << <<"date_withdrawal_notification", <<2023, 6, 16>> >>,
                     <<"date_withdrawal_effect", <<2024, 6, 17>> >> >>],
       [country |-> "European Union and Euratom",
        dates |-> << <<"date_withdrawal_notification", <<2024, 5, 30>> >>,
                     <<"date_withdrawal_effect", <<2025, 5, 30>> >> >>],
       [country |-> "Spain",
        dates |-> << <<"date_withdrawal_notification", <<2024, 4, 16>> >>,
                     <<"date_withdrawal_effect", <<2025, 4, 17>> >> >>],
       [country |-> "United Kingdom",
        dates |-> << <<"date_withdrawal_notification", <<2024, 4, 26>> >>,
                     <<"date_withdrawal_effect", <<2025, 4, 27>> >> >>] >>

\* the prefixes of lines 237-240, by date column
ECTPrefix(j) ==
    CASE j = 1 -> <<"signed", "on">>
      [] j = 2 -> <<"ratified", "on">>
      [] j = 3 -> <<"deposited", "on">>
      [] j = 4 -> <<"entered", "into", "force", "on">>
      [] OTHER -> <<"x">>

\* list item j of a treaty section: a dated sentence, or other text
ItemText(j, dated) ==
    IF dated THEN Text(ECTPrefix(j) \o <<"05", "December", "1997">>) ELSE Text(<<"x">>)

\* the pages a country link may lead to: no response, or a page without or with the
\* treaty section, whose parsing may raise inside the try block
NoResponse == [status |-> "error", section |-> FALSE, raises |-> FALSE, items |-> <<>>]

CountryPages ==
    {NoResponse}
      \cup {[status |-> "ok", section |-> FALSE, raises |-> FALSE, items |-> <<>>]}
      \cup {[status |-> "ok", section |-> TRUE, raises |-> TRUE, items |-> <<>>]}
      \cup {[status |-> "ok", section |-> TRUE, raises |-> FALSE,
             items |-> [j \in 1..k |-> ItemText(j, dated)]] :
                k \in 0..MaxItems, dated \in BOOLEAN}

SectionTitle == "1994 Energy Charter Treaty"

\* a plausible slip: lines 114-115 left out
NoPadding(dates) == dates

\* lines 114-115
PadDates(dates) == dates \o [j \in 1..(4 - Len(dates)) |-> NullText]

\* scrape_country_data (lines 98-122) on a page that responded: the record, the
\* empty list, or None after the except block
scrape_country_data(country, p) ==
    IF p.raises THEN [ret |-> "None", country |-> country, dates |-> <<>>]
    ELSE IF p.section
         THEN [ret |-> "list", country |-> country, dates |-> PadDates(p.items)]
         ELSE [ret |-> "empty", country |-> country, dates |-> <<>>]

\* line 234: the label of column i of pd.DataFrame(all_data) after the rename; a
\* column past 6 keeps its number
ECTColumn(i) ==
    CASE i = 0 -> "Country" [] i = 1 -> "Title" [] i = 2 -> "Signature"
      [] i = 3 -> "Ratification" [] i = 4 -> "Deposition"
      [] i = 5 -> "Entry into Force" [] i = 6 -> "Additional"
      [] OTHER -> ToString(i)

\* lines 233-234: one row per record, as wide as the longest record, a shorter
\* record filled with None
ECTFrame(all_data) ==
    LET lens  == {Len(all_data[i].dates) : i \in DOMAIN all_data}
        width == CHOOSE n \in lens : \A m \in lens : m <= n
    IN  [cols |-> [i \in 1..(width + 2) |-> ECTColumn(i - 1)],
         rows |-> [i \in DOMAIN all_data |->
                     [c \in {ECTColumn(j) : j \in 0..(width + 1)} |->
                        LET j == CHOOSE k \in 0..(width + 1) : ECTColumn(k) = c
                        IN  IF j = 0 THEN Text(<<all_data[i].country>>)
                            ELSE IF j = 1 THEN Text(<<SectionTitle>>)
                            ELSE IF j - 1 <= Len(all_data[i].dates)
                                 THEN all_data[i].dates[j - 1]
                                 ELSE NullText]]]

\* lines 237-242: the date columns
DateColumns(df) ==
    LET col(d, name, j) ==
            SetColumn(d, name, [i \in DOMAIN d.rows |->
                                   extract_date(d.rows[i][ECTColumn(j + 1)], ECTPrefix(j))])
        none(d, name) == SetColumn(d, name, [i \in DOMAIN d.rows |-> NoneValue])
    IN  none(none(col(col(col(col(df, "date_sign", 1), "date_ratification", 2),
                          "date_deposit", 3), "date_entry_force", 4),
                  "date_withdrawal_notification"), "date_withdrawal_effect")

\* an exception left extract_date
DateRaised(df) ==
    \E i \in DOMAIN df.rows : \E c \in DOMAIN df.rows[i] :
        /\ "raised" \in DOMAIN df.rows[i][c]
        /\ df.rows[i][c].raised # "none"

\* pd.to_datetime(v).year, lines 165 and 169
CuratedYear(v) == IF v = NotAvailable THEN v ELSE Value(v[1])

\* lines 162-170 for one entry of withdrawal_data
UpdateCountry(df, w) ==
    LET set == [k \in {w.dates[n][1] : n \in DOMAIN w.dates} |->
                   CuratedYear((CHOOSE d \in Range(w.dates) : d[1] = k)[2])]
    IN  IF \E i \in DOMAIN df.rows : df.rows[i].Country = Text(<<w.country>>)
        THEN [cols |-> df.cols \o SelectSeq([n \in DOMAIN w.dates |-> w.dates[n][1]],
                                            LAMBDA k : k \notin Range(df.cols)),
              rows |-> [i \in DOMAIN df.rows |->
                          IF df.rows[i].Country = Text(<<w.country>>)
                          THEN set @@ df.rows[i]
                          ELSE df.rows[i] @@ [k \in DOMAIN set \ Range(df.cols) |-> NaNValue]]]
        ELSE ConcatFill(<<df, [cols |-> <<"Country">> \o [n \in DOMAIN w.dates |-> w.dates[n][1]],
                               rows |-> <<("Country" :> Text(<<w.country>>)) @@ set>>]>>,
                        NaNValue)

\* a plausible slip: the curated countries missing from the table are not appended
update_dataframe_no_append(df, data) ==
    LET F[i \in 0..Len(data)] ==
            IF i = 0 THEN df
            ELSE IF \E n \in DOMAIN F[i - 1].rows :
                        F[i - 1].rows[n].Country = Text(<<data[i].country>>)
                 THEN UpdateCountry(F[i - 1], data[i])
                 ELSE F[i - 1]
    IN  F[Len(data)]

\* update_dataframe_withdrawals (lines 147-172)
update_dataframe_withdrawals(df, data) ==
    LET F[i \in 0..Len(data)] == IF i = 0 THEN df ELSE UpdateCountry(F[i - 1], data[i])
    IN  F[Len(data)]

\* line 247: df.replace({None: np.nan})
NoneToNaN(df) ==
    [cols |-> df.cols,
     rows |-> [i \in DOMAIN df.rows |->
                 [c \in DOMAIN df.rows[i] |->
                    IF df.rows[i][c] \in {NullText, NoneValue} THEN NaNValue
                    ELSE df.rows[i][c]]]]

\* add_readme_to_worksheet (lines 182-189): the lines of the Readme sheet
readme_text ==
    << "This file contains the data scraped from the Energy Charter Treaty website: ",
       "https://www.energychartertreaty.org/treaty/contracting-parties-and-signatories/",
       "Countries Italy, France, Germany, and Poland have already effectively withdrawn from the treaty at the time of the data extraction (July 2024), ",
       "so their withdrawal and signature dates did not appear on the website and were manually added.",
       "The pyhton script used to extract the data and create this file can be found at",
       "\\\\main.oecd.org\\ASgenENV\\ENVINFO\\BACKUP\\STATA\\IPAC\\CAP\\Others\\Scraping_Scripts\\ECT_scraping.py" >>

ECTInit ==
    /\ script = "ECT"
    /\ ect = [step |-> "links", links |-> <<>>, i |-> 1, pages |-> <<>>,
              all_data |-> <<>>, df |-> EmptyDF, err |-> "none", line |-> 0]
    /\ wb = <<>>
    /\ lvc = Idle
    /\ mar = Idle

ECTAt(step) == script = "ECT" /\ ect.step = step

ECTCrash(type, line) == [ect EXCEPT !.step = "crashed", !.err = type, !.line = line]

\* line 222: fetch_country_links (lines 58-80); a failed request is not caught
ECTFetchLinks ==
    /\ ECTAt("links")
    /\ \E ok \in BOOLEAN, n \in 0..MaxECTCountries :
         ect' = IF ~ok THEN ECTCrash("HTTPError", 69)
                ELSE [ect EXCEPT !.step = "scrape",
                                 !.links = [i \in 1..n |-> ECTCountryName(i)]]
    /\ UNCHANGED <<drrVars, mg, xd, yc, script, lvc, mar, wb>>

\* lines 227-230 for the next country: the request of lines 95-96 is outside the
\* try block; a record is kept when it is a non-empty list; pages keeps the pages
\* that were served, in the order of links
ECTScrapeCountry ==
    /\ ECTAt("scrape")
    /\ ect.i <= Len(ect.links)
    /\ \E p \in CountryPages :
         ect' = IF p.status = "error" THEN ECTCrash("HTTPError", 96)
                ELSE LET data == scrape_country_data(ect.links[ect.i], p)
                     IN  [ect EXCEPT !.i = ect.i + 1,
                                     !.pages = Append(ect.pages, p),
                                     !.all_data = IF data.ret = "list"
                                                  THEN Append(ect.all_data, data)
                                                  ELSE ect.all_data]
    /\ UNCHANGED <<drrVars, mg, xd, yc, script, lvc, mar, wb>>

\* lines 233-242: the frame and its date columns. Without a record the frame has no
\* column: line 237 assigns an empty frame to a column, which raises ValueError or,
\* where pandas accepts it, leaves line 162 to raise KeyError on df['Country']
ECTBuildFrame ==
    /\ ECTAt("scrape")
    /\ ect.i > Len(ect.links)
    /\ IF ect.all_data = <<>>
       THEN \E c \in {ECTCrash("ValueError", 237), ECTCrash("KeyError", 162)} : ect' = c
       ELSE LET df == DateColumns(ECTFrame(ect.all_data))
            IN  ect' = IF DateRaised(df) THEN ECTCrash("ValueError", 237)
                       ELSE [ect EXCEPT !.step = "update", !.df = df]
    /\ UNCHANGED <<drrVars, mg, xd, yc, script, lvc, mar, wb>>

\* line 246
ECTUpdateWithdrawals ==
    /\ ECTAt("update")
    /\ ect' = [ect EXCEPT !.step = "save",
                          !.df = update_dataframe_withdrawals(ect.df, withdrawal_data)]
    /\ UNCHANGED <<drrVars, mg, xd, yc, script, lvc, mar, wb>>

\* lines 247-252: None replaced by NaN, then save_to_excel (lines 196-214): the
\* sheet Readme first, then the data sheet
ECTSave ==
    /\ ECTAt("save")
    /\ LET df == NoneToNaN(ect.df)
       IN  /\ ect' = [ect EXCEPT !.step = "done", !.df = df]
           /\ wb' = <<TextSheet("Readme", readme_text),
                      DataSheet("Energy_charter_treaty_2024", df)>>
    /\ UNCHANGED <<drrVars, mg, xd, yc, script, lvc, mar>>

ECTNext ==
    \/ ECTFetchLinks
    \/ ECTScrapeCountry
    \/ ECTBuildFrame
    \/ ECTUpdateWithdrawals
    \/ ECTSave

InitECT == ECTInit /\ DRRIdle /\ mg = Idle /\ xd = Idle /\ yc = Idle

SpecECT == InitECT /\ [][ECTNext]_vars

-----------------------------------------------------------------------------
(* The export steps of the four scripts *)

InitExport == Init \/ InitLVC \/ InitMARPOL \/ InitECT

NextExport == DRRNext \/ LVCNext \/ MARNext \/ ECTNext

SpecExport == InitExport /\ [][NextExport]_vars

-----------------------------------------------------------------------------
(* The year coercions: DRR_subindicators.py line 242 and MARPOL_Annex6_pdf.py   *)
(* lines 85-86, each applied to one column                                       *)

\* cells of a column handed to a coercion
MaxCells == 2

\* cells of the Year column of the browser script's final table: year texts of the
\* site's rows, and cells that are no number
YearCells == {YearText(2014), YearText(2015), "", "n/a"}

\* the cells of the date columns of the treaty tables
DateCells == SignatureTexts \cup EntryTexts

\* pd.to_numeric(text, errors='coerce'): the number, NaN for a text that is none
to_numeric_coerce(t) ==
    IF \E n \in 2005..2024 : YearText(n) = t THEN YearRank(t) ELSE NaNYear

\* the result of a coercion of a column: the new column, or the exception raised
Coerced(col) == [raised |-> "none", column |-> col]

CoercionRaised(exc) == [raised |-> exc, column |-> <<>>]

NotCalled == [raised |-> "not called", column |-> <<>>]

\* Series.astype(int): ValueError (IntCastingNaNError) when a cell is NaN
astype_int(col) ==
    IF NaNYear \in Range(col) THEN CoercionRaised("ValueError") ELSE Coerced(col)

\* line 242: pd.to_numeric(final_df["Year"], errors='coerce').astype(int)
YearColumnToInt(col) == astype_int([i \in DOMAIN col |-> to_numeric_coerce(col[i])])

\* lines 85-86: pd.to_datetime(col, errors='coerce').dt.year
DateColumnToYear(col) == Coerced([i \in DOMAIN col |-> CoercedYear(col[i])])

ColumnsUpTo(cells, n) == UNION {[1..m -> cells] : m \in 0..n}

CoerceInit ==
    \E ys \in ColumnsUpTo(YearCells, MaxCells), ds \in ColumnsUpTo(DateCells, MaxCells) :
        yc = [years |-> ys, dates |-> ds, year_result |-> NotCalled,
              date_result |-> NotCalled]

\* DRR_subindicators.py line 242 on the Year column
CoerceYearColumn ==
    /\ yc # Idle
    /\ yc.year_result = NotCalled
    /\ yc' = [yc EXCEPT !.year_result = YearColumnToInt(yc.years)]
    /\ UNCHANGED <<drrVars, mg, xd, batchVars>>

\* MARPOL_Annex6_pdf.py line 85 or 86 on a date column
CoerceDateColumn ==
    /\ yc # Idle
    /\ yc.date_result = NotCalled
    /\ yc' = [yc EXCEPT !.date_result = DateColumnToYear(yc.dates)]
    /\ UNCHANGED <<drrVars, mg, xd, batchVars>>

CoerceNext == CoerceYearColumn \/ CoerceDateColumn

InitCoerce == CoerceInit /\ DRRIdle /\ mg = Idle /\ xd = Idle /\ BatchIdle

SpecCoerce == InitCoerce /\ [][CoerceNext]_vars

-----------------------------------------------------------------------------
(* Claims about the browser script, checked under Spec *)

\* the first 2015-2024 pass has returned and the script has executed lines 184-185,
\* to their end or to an uncaught exception
PastRetrySetDRR ==
    \/ pc = "l187"
    \/ pc = "crashed" /\ err.line = 184

Bound(name) == name \in DOMAIN globals

\* C1: once the first pass of a base year has returned and the retry set has been
\* computed, the retry set is the expected codes 1..193 minus the codes in the table
\* of the first pass.
C1_RetrySetIsDifference ==
    PastRetrySetDRR =>
        /\ Bound("missing_country_codes")
        /\ globals["missing_country_codes"] = ExpectedCodes \ Codes(globals["df_2024"])

\* C2: if the first pass obtained every expected code, no second session is opened,
\* run_scraping is not called again, and the result of the base year is the table
\* of the first pass.
C2_CompletePassNeedsNoRetry ==
    (PastRetrySetDRR /\ Codes(globals["df_2024"]) = ExpectedCodes) =>
        /\ sessions = 1
        /\ pc # "run"
        /\ Bound("full_df_2024")
        /\ globals["full_df_2024"] = globals["df_2024"]

\* (Country, Year) pairs occur once among the rows
OneRowPerCountryYear(df) ==
    \A i, j \in DOMAIN df.rows :
        (df.rows[i].Country = df.rows[j].Country /\ df.rows[i].Year = df.rows[j].Year)
            => i = j

\* C4: whatever countries succeeded or failed, once the passes are over the script
\* has a final table, and it has at most one row per (Country, Year) pair.
C4_FinalTableOneRowPerCountryYear ==
    PastRetrySetDRR =>
        /\ Bound("final_df")
        /\ OneRowPerCountryYear(globals["final_df"])

-----------------------------------------------------------------------------
(* Claims about the merge of one country's tables, checked under SpecMerge *)

\* the partial tables that have rows, hence key columns
KeyedParts == SelectSeq(mg.parts, LAMBDA p : ~IsEmpty(p.df))

PartKeys == UNION {Keys(KeyedParts[i].df) : i \in DOMAIN KeyedParts}

\* the value a partial table holds for a key, absent when it lacks the key
PartValue(p, k) ==
    IF k \in Keys(p.df)
    THEN LET r == CHOOSE r \in Range(p.df.rows) : KeyOf(r) = k IN r[p.sub]
    ELSE NaN

\* C3: the merged table of a country has exactly one row per key occurring in any
\* partial table; each subindicator column holds the value of the partial table that
\* supplied it, absent where that table lacks the key; with equal key sets the row
\* count is the number of keys.
C3_OuterMergeOneRowPerKey ==
    (mg # Idle /\ mg.err = "none" /\ KeyedParts # <<>>) =>
        LET df == mg.country_df
        IN  /\ Keys(df) = PartKeys
            /\ Len(df.rows) = Cardinality(PartKeys)
            /\ \A i \in DOMAIN df.rows : \A j \in DOMAIN KeyedParts :
                   df.rows[i][KeyedParts[j].sub] = PartValue(KeyedParts[j], KeyOf(df.rows[i]))
            /\ (\A j \in DOMAIN KeyedParts : Keys(KeyedParts[j].df) = PartKeys)
                   => Len(df.rows) = Cardinality(Keys(KeyedParts[1].df))

\* two tables with different key sets have been merged
C3_Witness ==
    /\ mg # Idle
    /\ mg.err = "none"
    /\ Len(KeyedParts) >= 2
    /\ Keys(KeyedParts[1].df) # Keys(KeyedParts[2].df)
    /\ Keys(KeyedParts[1].df) \cap Keys(KeyedParts[2].df) # {}

-----------------------------------------------------------------------------
(* Claims about extract_LVC_Data, checked under SpecLVC *)

\* the forward-fill of lines 166-167 has run
LVCFilled == script = "LVC" /\ lvc.cleaned # <<>>

\* the nearest row above row i whose cleaned label is not blank, 0 when none is
NearestLabelAbove(labels, i) ==
    IF \E j \in 1..(i - 1) : labels[j] # ""
    THEN CHOOSE j \in 1..(i - 1) :
            labels[j] # "" /\ \A k \in (j + 1)..(i - 1) : labels[k] = ""
    ELSE 0

\* C5: after the forward-fill a row whose label was blank holds the nearest
\* non-blank label above it in the concatenated table (it stays absent when there is
\* none), non-blank labels are unchanged, and [Tax, blank, blank, Fee, blank]
\* becomes [Tax, Tax, Tax, Fee, Fee].
C5_ForwardFillCarriesLastLabel ==
    LVCFilled =>
        LET before == lvc.cleaned
            after  == Column(lvc.combined, InstrumentCol)
        IN  /\ Len(after) = Len(before)
            /\ \A i \in DOMAIN before :
                 IF before[i] # "" THEN after[i] = before[i]
                 ELSE LET j == NearestLabelAbove(before, i)
                      IN  after[i] = IF j = 0 THEN NA ELSE before[j]
            /\ before = <<"Tax", "", "", "Fee", "">>
                 => after = <<"Tax", "Tax", "Tax", "Fee", "Fee">>

\* the sequence [Tax, blank, blank, Fee, blank] has been filled and exported
C5_Witness ==
    /\ script = "LVC"
    /\ lvc.step = "done"
    /\ lvc.cleaned = <<"Tax", "", "", "Fee", "">>

-----------------------------------------------------------------------------
(* Claims about extract_date, checked under SpecExtractDate *)

\* the words ws hold the prefix (first at position i) followed by a day, a month name
\* and a four-digit year, after which the text ends or the prefix occurs again
DateFollowsPrefix(ws, prefix, i) ==
    LET d == i + Len(prefix)
    IN  /\ i \in Occurrences(ws, prefix)
        /\ \A j \in Occurrences(ws, prefix) : i <= j
        /\ Len(ws) >= d + 2
        /\ DayOf(ws[d]) \in 1..31 /\ MonthOf(ws[d + 1]) \in 1..12 /\ YearOf(ws[d + 2]) # 0
        /\ Len(ws) = d + 2 \/ (d + 3) \in Occurrences(ws, prefix)

\* C6: extract_date never raises; it returns the year of the date that follows the
\* prefix ("ratified on 05 December 1997" gives 1997), and an absent value when the
\* text is absent, lacks the prefix, or is not a date after the prefix.
C6_ExtractDateNeverRaises ==
    (xd # Idle /\ xd.called) =>
        LET ws == xd.text.words
            r  == xd.result
            at == {i \in 1..Len(ws) : DateFollowsPrefix(ws, xd.prefix, i)}
        IN  /\ r.raised = "none"
            /\ IF ~xd.text.null /\ at # {}
               THEN \A i \in at :
                       r.kind = "year" /\ r.year = YearOf(ws[i + Len(xd.prefix) + 2])
               ELSE r.kind \in {"None", "NaN"}
            /\ (ws = <<"ratified", "on", "05", "December", "1997">>
                    /\ xd.prefix = <<"ratified", "on">>)
                 => (r.kind = "year" /\ r.year = 1997)

\* extract_date was called on a text with the prefix and no parseable date after it
C6_Witness ==
    /\ xd # Idle
    /\ xd.called
    /\ xd.text = Text(<<"x", "ratified", "on", "32", "December">>)
    /\ xd.prefix = <<"ratified", "on">>
    /\ xd.result = NoneValue

-----------------------------------------------------------------------------
(* Claims about the MARPOL panel, checked under SpecMARPOL *)

\* save_to_excel has built the panel
PanelBuilt == script = "MARPOL" /\ mar.step = "done"

\* the entities: the rows of combined the panel was generated from
Entities == Range(mar.combined.rows)

\* the panel rows of a country and year
PanelRows(country, year) ==
    {r \in Range(mar.panel.rows) : r.Country = country /\ r.Year = year}

Max(a, b) == IF a >= b THEN a ELSE b

\* the panel rows of entity e hold 1 in column col in exactly the years from `from` on
OneExactlyFrom(e, col, from) ==
    \A y \in PanelYears :
        /\ PanelRows(e.Country, y) # {}
        /\ \A r \in PanelRows(e.Country, y) : (r[col] = 1) <=> (y >= from)

\* C7 as stated: for an entity with signature year S, marpol_sign = 1 exactly in the
\* panel years >= S.
C7_SignOneExactlyFromSignatureYear ==
    PanelBuilt =>
        \A e \in Entities :
            CoercedYear(e.Signature) # NaNYear
                => OneExactlyFrom(e, "marpol_sign", CoercedYear(e.Signature))

\* C7 amended: marpol_sign = 1 exactly in the panel years >= max(S, 1997), which for
\* S = 1999 are the years >= 1999.
C7_SignOneExactlyFromClippedYear ==
    PanelBuilt =>
        \A e \in Entities :
            LET S == CoercedYear(e.Signature)
            IN  S # NaNYear =>
                  /\ OneExactlyFrom(e, "marpol_sign", Max(S, SignCutoff))
                  /\ S = 1999 => OneExactlyFrom(e, "marpol_sign", 1999)

\* the panel holds an entity signed in 1999 and one signed before the cutoff
C7_Witness ==
    /\ PanelBuilt
    /\ \E e \in Entities : CoercedYear(e.Signature) = 1999
    /\ \E e \in Entities : CoercedYear(e.Signature) = 1995

\* C8 as stated: for an entity with entry-into-force year E, marpol_effect = 1
\* exactly in the panel years >= E.
C8_EffectOneExactlyFromEntryYear ==
    PanelBuilt =>
        \A e \in Entities :
            CoercedYear(e.EntryintoForce) # NaNYear
                => OneExactlyFrom(e, "marpol_effect", CoercedYear(e.EntryintoForce))

\* C8 amended: marpol_effect = 1 exactly in the panel years >= max(E, 2005), which
\* for E = 2000 are the years >= 2005.
C8_EffectOneExactlyFromClippedYear ==
    PanelBuilt =>
        \A e \in Entities :
            LET E == CoercedYear(e.EntryintoForce)
            IN  E # NaNYear =>
                  /\ OneExactlyFrom(e, "marpol_effect", Max(E, EffectCutoff))
                  /\ E = 2000 => OneExactlyFrom(e, "marpol_effect", 2005)

\* the panel holds an entity in force since 2000 and one in force after the cutoff
C8_Witness ==
    /\ PanelBuilt
    /\ \E e \in Entities : CoercedYear(e.EntryintoForce) = 2000
    /\ \E e \in Entities : CoercedYear(e.EntryintoForce) = 2006

\* C9: in a panel row before the cutoff of an indicator (1997 for marpol_sign, 2005
\* for marpol_effect) the indicator is an absent designation, neither 0 nor 1.
C9_IndicatorAbsentBeforeCutoff ==
    PanelBuilt =>
        \A r \in Range(mar.panel.rows) :
            /\ r.Year < SignCutoff => r.marpol_sign \notin {0, 1}
            /\ r.Year < EffectCutoff => r.marpol_effect \notin {0, 1}

-----------------------------------------------------------------------------
(* Claims about the export steps, checked under SpecExport *)

\* a workbook has been written
Exported == wb # <<>>

\* the tables a script hands to its export step, in sheet order
ExportedTables ==
    CASE script = "LVC" -> <<lvc.combined>>
      [] script = "MARPOL" -> <<mar.combined, mar.panel>>
      [] script = "ECT" -> <<ect.df>>
      [] OTHER -> <<>>

DataSheets == SelectSeq(wb, LAMBDA s : s.kind = "data")

DocumentationSheets ==
    SelectSeq(wb, LAMBDA s : s.kind = "text" /\ s.text # <<>>
                                /\ \A i \in DOMAIN s.text : s.text[i] # "")

\* each exported table is on a data sheet of its own whose header row equals the
\* table's columns in order
HeadersMatchTables ==
    /\ Len(DataSheets) = Len(ExportedTables)
    /\ \A i \in DOMAIN DataSheets : DataSheets[i].header = ExportedTables[i].cols

\* C10 as stated: every script's export step produces a workbook with at least two
\* sheets, one data sheet whose header row equals the table's columns in order and
\* one documentation sheet containing non-empty descriptive text.
C10_WorkbookHasDataAndDocumentationSheet ==
    Exported =>
        /\ Len(wb) >= 2
        /\ \E i \in DOMAIN DataSheets : \E j \in DOMAIN ExportedTables :
              DataSheets[i].header = ExportedTables[j].cols
        /\ Len(DocumentationSheets) >= 1

\* C10 amended: every workbook a script writes has, for each exported table, a data
\* sheet whose header row equals the table's columns in order; only the workbook of
\* ECT_scraping.py also has a documentation sheet (Readme, non-empty text, first);
\* that of LVC_pdf_scraping.py is the single data sheet, that of MARPOL_Annex6_pdf.py
\* two data sheets; the browser script does not reach its export step.
C10_WorkbookSheetsPerScript ==
    /\ Exported =>
          /\ script \in {"ECT", "LVC", "MARPOL"}
          /\ HeadersMatchTables
          /\ script = "ECT" => /\ Len(wb) = 2
                               /\ Len(DocumentationSheets) = 1
                               /\ wb[1] = DocumentationSheets[1]
                               /\ wb[2] = DataSheets[1]
          /\ script = "LVC" => Len(wb) = 1 /\ Len(DocumentationSheets) = 0
          /\ script = "MARPOL" => Len(wb) = 2 /\ Len(DocumentationSheets) = 0
    /\ pc # "idle" => ~Exported

\* the workbook of ECT_scraping.py is written, with a scraped and a curated row
C10_Witness ==
    /\ script = "ECT"
    /\ Exported
    /\ Len(ect.all_data) >= 1
    /\ Len(ect.df.rows) > Len(ect.all_data)

-----------------------------------------------------------------------------
(* Claims about the failure of one entity's fetch, checked under SpecExport *)

\* the browser script was ended by the exception of a country's driver.get (line
\* 120), or by pd.concat of the empty list after no country gave a table (line 167)
DRREndedByEntityFailure == pc = "crashed" /\ err.line \in {120, 167}

\* the HTTP script was ended by the failed request of a country page (lines 95-96),
\* or by the column-less frame left when no country gave a record (lines 237, 162)
ECTEndedByEntityFailure ==
    script = "ECT" /\ ect.step = "crashed" /\ ect.line \in {96, 162, 237}

\* C11: a fetch failure for one entity is caught at the per-entity level and never
\* terminates the run; the loop proceeds and the pass still returns the table of the
\* entities that succeeded, also when none succeeded.
C11_EntityFetchFailureNeverEndsRun ==
    ~DRREndedByEntityFailure /\ ~ECTEndedByEntityFailure

-----------------------------------------------------------------------------
(* Claims about the year coercions, checked under SpecCoerce *)

\* the coercion of col did not raise and kept every row, a cell that cannot be
\* parsed holding the absent value
KeptWithAbsent(col, res, parsed(_)) ==
    /\ res.raised = "none"
    /\ Len(res.column) = Len(col)
    /\ \A i \in DOMAIN col : res.column[i] = parsed(col[i])

\* C12: coercing a year or date string to an integer year never raises; a value that
\* cannot be parsed becomes an absent value in that column and the row is kept, for
\* the Year column of the browser script's final table and for the Signature and
\* EntryintoForce columns of the treaty panel.
C12_YearCoercionNeverRaises ==
    yc # Idle =>
        /\ yc.year_result # NotCalled
              => KeptWithAbsent(yc.years, yc.year_result, to_numeric_coerce)
        /\ yc.date_result # NotCalled
              => KeptWithAbsent(yc.dates, yc.date_result, CoercedYear)

-----------------------------------------------------------------------------
(* Claims about the browser sessions, checked under Spec *)

\* a pass has ended: run_scraping returned, or an exception left it
PassEnded == sessions >= 1 /\ pc # "run"

\* C13: each scraping pass acquires exactly one browser session and the session is
\* released when the pass ends: every session that was opened is released before
\* the next one is opened and before the script ends.
C13_SessionReleasedWhenPassEnds ==
    /\ driver = "open" => pc \in {"run", "l181"}
    /\ pc = "crashed" => driver # "open"
    /\ PassEnded /\ pc # "l181" => driver = "quit"

-----------------------------------------------------------------------------
(* Claims about the two passes of a base year, checked under Spec *)

-----------------------------------------------------------------------------
(* Claims about update_dataframe_withdrawals, checked under SpecECT *)

\* the curated record of a country, <<>> when it has none
CuratedRecord(country) ==
    LET ws == SelectSeq(withdrawal_data, LAMBDA w : Text(<<w.country>>) = country)
    IN  IF ws = <<>> THEN <<>> ELSE ws[1].dates

\* the fields a curated record lists
ListedFields(dates) == {dates[n][1] : n \in DOMAIN dates}

\* the year of the curated date of a listed field
ListedYear(dates, k) == (CHOOSE d \in Range(dates) : d[1] = k)[2][1]

\* row `after` is row `before` with the listed fields overwritten by the years of the
\* curated dates and every other column as it was (every column, without a record)
Overwritten(before, after) ==
    LET dates == CuratedRecord(before.Country)
    IN  /\ DOMAIN after = DOMAIN before
        /\ \A c \in DOMAIN before :
              after[c] = IF c \in ListedFields(dates)
                         THEN Value(ListedYear(dates, c))
                         ELSE before[c]

\* the curated countries that have no row in df
CuratedMissing(df) ==
    {w \in Range(withdrawal_data) :
        \A i \in DOMAIN df.rows : df.rows[i].Country # Text(<<w.country>>)}

\* the update took the table `before` to the table `after`
MergedByCountry(before, after) ==
    /\ after.cols = before.cols
    /\ Len(after.rows) = Len(before.rows) + Cardinality(CuratedMissing(before))
    /\ \A i \in DOMAIN before.rows : Overwritten(before.rows[i], after.rows[i])
    /\ \A w \in CuratedMissing(before) :
          /\ Cardinality({i \in DOMAIN after.rows :
                             after.rows[i].Country = Text(<<w.country>>)}) = 1
          /\ \A i \in DOMAIN after.rows :
                after.rows[i].Country = Text(<<w.country>>)
                    => \A k \in ListedFields(w.dates) :
                           after.rows[i][k] = Value(ListedYear(w.dates, k))

\* C15: update_dataframe_withdrawals overwrites the listed fields of the rows of a
\* curated country in the table with the years of the curated dates, adding no row
\* and leaving its other columns; appends exactly one row for a curated country not
\* in the table; leaves the rows of the other countries; and applied a second time
\* changes nothing.
C15_WithdrawalsMergedByCountry ==
    [][ECTUpdateWithdrawals =>
          /\ MergedByCountry(ect.df, ect'.df)
          /\ update_dataframe_withdrawals(ect'.df, withdrawal_data) = ect'.df]_vars

\* the update has run on a table with a curated and an uncurated country, and has
\* appended the curated countries the site does not list
C15_Witness ==
    /\ ECTAt("save")
    /\ \E i \in DOMAIN ect.df.rows :
          /\ ect.df.rows[i].Country = Text(<<"Luxembourg">>)
          /\ ect.df.rows[i]["date_withdrawal_effect"] = Value(2024)
    /\ \E i \in DOMAIN ect.df.rows : ect.df.rows[i].Country = Text(<<"Austria">>)
    /\ Len(ect.df.rows) > Len(ect.all_data)

-----------------------------------------------------------------------------
(* Claims about the order of the UI actions, checked under Spec *)

\* the UI actions of run_scraping for one country, in the order of lines 120-152:
\* the URL, the show-table control, the time period, the second and then the first
\* subindicator, the table; then each further subindicator and its table
UIOrder ==
    <<"get", "click_table", "select_year", "select_sub", "select_sub", "read_table">>
        \o Flatten([k \in 1..(NumSub - 1) |-> <<"select_sub", "read_table">>])

IsPrefix(s, t) == Len(s) <= Len(t) /\ s = SubSeq(t, 1, Len(s))

\* the actions of the current country up to the first read of the table
BeforeFirstRead ==
    LET reads == {i \in DOMAIN trace : trace[i] = "read_table"}
    IN  IF reads = {} THEN trace
        ELSE SubSeq(trace, 1, (CHOOSE i \in reads : \A j \in reads : i <= j) - 1)

\* in s every action a comes before every action b
AllBefore(s, a, b) ==
    \A i, j \in DOMAIN s : (s[i] = a /\ s[j] = b) => i < j

\* C16 as stated: for each entity the URL is opened, then the indicator is chosen,
\* then the time period, then the show-table control is clicked, and only then the
\* results table is read.
C16_IndicatorThenPeriodThenShowTable ==
    trace # <<>> =>
        /\ trace[1] = "get"
        /\ AllBefore(BeforeFirstRead, "select_sub", "select_year")
        /\ AllBefore(BeforeFirstRead, "select_year", "click_table")
        /\ AllBefore(trace, "click_table", "read_table")

\* C16 amended: for each entity the URL is opened, then the show-table control is
\* clicked, then the time period is chosen, then the indicator (the second
\* subindicator, then the first), and only then the results table is read; each
\* further subindicator is chosen and its table read.
C16_ShowTableThenPeriodThenIndicator ==
    IsPrefix(trace, UIOrder)

\* all the UI actions of a country have been performed
C16_Witness ==
    /\ pc = "run"
    /\ trace = UIOrder

-----------------------------------------------------------------------------
(* Claims about scrape_country_data, checked under SpecECT *)

\* the page of country i held the treaty section and was parsed without exception
SectionRead(i) == ect.pages[i].section /\ ~ect.pages[i].raises

\* the record of all_data for the country of link i was made from the list items of
\* its page, padded to four date fields with None
PaddedRecord(rec, i) ==
    LET items == ect.pages[i].items
    IN  /\ rec.country = ect.links[i]
        /\ Len(rec.dates) >= 4
        /\ Len(rec.dates) = Max(4, Len(items))
        /\ \A j \in DOMAIN rec.dates :
              rec.dates[j] = IF j <= Len(items) THEN items[j] ELSE NullText

\* the frame of line 233 has the row of country i, with the title and four date
\* columns
FrameRow(i) ==
    /\ \A j \in 0..5 : ECTColumn(j) \in Range(ect.df.cols)
    /\ \E n \in DOMAIN ect.df.rows :
          /\ ect.df.rows[n].Country \in {Text(<<ect.links[i]>>)}
          /\ ect.df.rows[n].Title \in {Text(<<SectionTitle>>)}

\* C17: for a country whose page contains the treaty section, scrape_country_data
\* emits a record of the country, the section title and at least four date fields;
\* with fewer than four list items the missing fields are padded with absent markers
\* and the record is still emitted, and main keeps it.
C17_RecordPaddedToFourDates ==
    script = "ECT" =>
        \A i \in DOMAIN ect.pages :
            SectionRead(i) =>
                /\ Cardinality({j \in DOMAIN ect.all_data :
                                   PaddedRecord(ect.all_data[j], i)}) = 1
                /\ ect.step \in {"update", "save", "done"} => FrameRow(i)

\* a country with two list items and one with none have given padded records, and
\* the workbook is written
C17_Witness ==
    /\ ECTAt("done")
    /\ \E i \in DOMAIN ect.pages : SectionRead(i) /\ Len(ect.pages[i].items) = 2
    /\ \E i \in DOMAIN ect.pages : SectionRead(i) /\ Len(ect.pages[i].items) = 0
    /\ Len(ect.all_data) = 2

-----------------------------------------------------------------------------
(* Claims about what run_scraping records, checked under Spec *)

\* the tables run_scraping holds or has returned
RecordedTables ==
    {pass.country_df} \cup Range(pass.all_country_container)
        \cup (IF Bound("df_2024") THEN {globals["df_2024"]} ELSE {})

\* C18: a value stored in column e1aK of a country's rows was read from the table
\* of subindicator K, of the pass's base year and of that country: a failed click or
\* selection never has another table recorded under that column and country code.
C18_ColumnHoldsItsSubindicator ==
    pc # "idle" =>
        \A df \in RecordedTables : \A i \in DOMAIN df.rows : \A k \in 1..NumSub :
            (SubName(k) \in DOMAIN df.rows[i] /\ df.rows[i][SubName(k)] # NaN)
                => df.rows[i][SubName(k)] = SiteValue(df.rows[i].Country_Code, 2024, k)

====
